---- MODULE Spec2Model ----
(***************************************************************************)
(* First-person city scene: the frame loop that couples the cannon-es      *)
(* physics world to the three.js scene.  Two variants of the program are   *)
(* in the repository: the refactored one (src/unnamed/part_000, settings   *)
(* objects, one Set of active projectiles, textures loaded before the      *)
(* scene is set up) and the first one (src/src/main.js, two arrays of      *)
(* projectiles, everything built at module load).                          *)
(*                                                                         *)
(* Units: lengths in tenths of a metre, speeds in tenths of a metre per    *)
(* second, masses in tenths of a kilogram.  The camera orientation is the  *)
(* pair <<yaw, pitch>> in quarter turns (PointerLockControls, Euler order  *)
(* YXZ), so that every rotation is exact on integers.                      *)
(***************************************************************************)
EXTENDS Integers, Sequences, FiniteSets, TLC

VARIABLES
  pc,                \* where the single thread is: loading | failed | start | step | sync | projectiles | render | idle
  keyMap,            \* keyMap: 'w','s','a','d' -> held
  camera,            \* camera: [position, quaternion]
  bodies,            \* every CANNON.Body ever created: id -> record
  world,             \* world.bodies, in insertion order
  meshes,            \* body.threemesh of the bodies that carry one: id -> [position, quaternion]
  scene,             \* ids of the body meshes currently in the scene
  activeProjectiles, \* part_000: the Set of active projectiles, in insertion order
  bullets,           \* main.js: the array of bullets
  bombs,             \* main.js: the array of bombs
  nextId,            \* identity of the next projectile object
  frames,            \* number of animate() calls so far
  phases,            \* history: the phases the current frame has executed, in order
  stepCalls,         \* history: the dt of every world.step call of the current frame
  visited,           \* history: the projectiles the last updateProjectiles pass visited, in order
  passStart,         \* history: the active projectiles when the last pass started
  retireCount,       \* history: id -> number of times it was retired
  lateWrites,        \* history: ids whose mesh was written after their retirement
  inputs,            \* history: number of input events that changed the state
  textures,          \* the promise of each loadTexture: path -> pending | loaded | failed
  console,           \* what console.error has written
  threemesh          \* the threemesh properties that are set: pairs <<body, mesh object>>

vars == <<pc, keyMap, camera, bodies, world, meshes, scene, activeProjectiles, bullets, bombs, nextId,
          frames, phases, stepCalls, visited, passStart, retireCount, lateWrites, inputs,
          textures, console, threemesh>>

(***************************** bounds ***************************************)
\* input events that change the state, and frames, of a run
MaxInputs == 2
MaxFrames == 2
\* speed (tenths of a metre per second) a contact impulse of the solver may give a projectile
EjectSpeed == 360000
\* fixed-point one of a normalised vector's components
FixedOne == 1000

(************************* program constants ********************************)
CAMERA_START_Y == 50
TIME_STEP_HZ == 60
GRAVITY_Y == -98
PLAYER_RADIUS == 10
PLAYER_MASS == 10
PLAYER_VELOCITY == 100
BULLET_RADIUS == 2
BULLET_MASS == 1
BULLET_SPEED == 500
BOMB_RADIUS == 5
BOMB_MASS == 10
BOMB_SPEED == 300
MAX_DISTANCE == 5000
SPAWN_OFFSET == 15
GROUND_SIZE == 1000
BUILDING_SPACING == 100
BUILDING_BASE_HEIGHT == 200
BUILDING_HEIGHT_VARIATION == 100
\* a building that gravity acts on
BUILDING_MASS_DYNAMIC == PLAYER_MASS
\* createBuildings: new CANNON.Body({ mass: 0, ... })
BUILDING_MASS == 0

CAMERA_START_POSITION == <<0, CAMERA_START_Y, 0>>

PROJECTILE_SETTINGS(type) ==
  IF type = "bullet"
  THEN [RADIUS |-> BULLET_RADIUS, MASS |-> BULLET_MASS, SPEED |-> BULLET_SPEED]
  ELSE [RADIUS |-> BOMB_RADIUS, MASS |-> BOMB_MASS, SPEED |-> BOMB_SPEED]

(***************************** vectors **************************************)
Zero3 == <<0, 0, 0>>
VAdd(a, b) == <<a[1] + b[1], a[2] + b[2], a[3] + b[3]>>
VScale(a, k) == <<a[1] * k, a[2] * k, a[3] * k>>
LengthSquared(a) == a[1] * a[1] + a[2] * a[2] + a[3] * a[3]
\* JavaScript's division truncates nowhere; on integers the model rounds towards zero
TruncDiv(a, b) == IF a >= 0 THEN a \div b ELSE -((-a) \div b)
Sgn(x) == IF x > 0 THEN 1 ELSE IF x < 0 THEN -1 ELSE 0
Abs(x) == IF x < 0 THEN -x ELSE x

(************************ three.js vector operations ************************)
\* rotation by `pitch` quarter turns about the X axis (pitch is -1, 0 or 1)
RotX(pitch, v) ==
  IF pitch = 1 THEN <<v[1], -v[3], v[2]>>
  ELSE IF pitch = -1 THEN <<v[1], v[3], -v[2]>>
  ELSE v

\* rotation by `yaw` quarter turns about the Y axis (yaw is 0..3)
RotY(yaw, v) ==
  IF yaw = 1 THEN <<v[3], v[2], -v[1]>>
  ELSE IF yaw = 2 THEN <<-v[1], v[2], -v[3]>>
  ELSE IF yaw = 3 THEN <<-v[3], v[2], v[1]>>
  ELSE v

\* Vector3.applyQuaternion(q) for q = yaw about Y after pitch about X
ApplyQuaternion(v, q) == RotY(q[1], RotX(q[2], v))

\* camera.getWorldDirection(target): the camera looks down its negative Z axis
GetWorldDirection(q) == ApplyQuaternion(<<0, 0, -1>>, q)

\* floor(c * FixedOne / sqrt(l2)) for c >= 0, l2 > 0
FixedOver(c, l2) ==
  CHOOSE n \in 0..(c * FixedOne) :
    /\ n * n * l2 <= c * c * FixedOne * FixedOne
    /\ (n + 1) * (n + 1) * l2 > c * c * FixedOne * FixedOne

\* Vector3.normalize(): divideScalar(length() || 1); the result is in fixed point
Normalize(v) ==
  LET l2 == LengthSquared(v)
  IN  IF l2 = 0
      THEN VScale(v, FixedOne)
      ELSE [i \in 1..3 |-> Sgn(v[i]) * FixedOver(Abs(v[i]), l2)]

(****************************** identities **********************************)
GROUND == <<"ground", 0>>
PLAYER == <<"player", 0>>
Projectile(n) == <<"projectile", n>>
IsProjectile(id) == id[1] = "projectile"

Orientations == {<<0, 0>>, <<1, 0>>, <<0, 1>>}
MoveKeys == {"w", "s", "a", "d"}
\* "q" stands for every key that is not a key of keyMap
Keys == MoveKeys \cup {"q"}
Buttons == {0, 1, 2}
\* the three textures loadTextures asks for
Textures == {"sky.jpg", "ground.jpg", "/building.jpg"}

(****************************** player **************************************)
\* main.js, updatePlayer: each held key adds its unit to the move vector
MoveVectorMain(km) ==
  << (IF km["d"] THEN 1 ELSE 0) - (IF km["a"] THEN 1 ELSE 0),
     0,
     (IF km["s"] THEN 1 ELSE 0) - (IF km["w"] THEN 1 ELSE 0) >>

\* part_000, updatePlayer: the move vector before normalize()
MoveVector(km) ==
  << IF km["a"] THEN -1 ELSE IF km["d"] THEN 1 ELSE 0,
     0,
     IF km["w"] THEN -1 ELSE IF km["s"] THEN 1 ELSE 0 >>

\* the normalised move vector turned by the camera quaternion (fixed point)
TurnedMove(mv, q) == ApplyQuaternion(Normalize(mv), q)

\* a set() that takes all three components from the move vector
PlayerVelocityAll(mv, q, v) ==
  << TruncDiv(TurnedMove(mv, q)[1] * PLAYER_VELOCITY, FixedOne),
     TruncDiv(TurnedMove(mv, q)[2] * PLAYER_VELOCITY, FixedOne),
     TruncDiv(TurnedMove(mv, q)[3] * PLAYER_VELOCITY, FixedOne) >>

\* a write that adds the move to the velocity the body has
PlayerVelocityAdded(mv, q, v) ==
  << v[1] + TruncDiv(TurnedMove(mv, q)[1] * PLAYER_VELOCITY, FixedOne),
     v[2],
     v[3] + TruncDiv(TurnedMove(mv, q)[3] * PLAYER_VELOCITY, FixedOne) >>

\* playerBody.velocity.set(moveVector.x * V, playerBody.velocity.y, moveVector.z * V)
PlayerVelocity(mv, q, v) ==
  << TruncDiv(TurnedMove(mv, q)[1] * PLAYER_VELOCITY, FixedOne),
     v[2],
     TruncDiv(TurnedMove(mv, q)[3] * PLAYER_VELOCITY, FixedOne) >>

(****************************** bodies **************************************)
\* a CANNON.Body: quaternion and angularVelocity are quarter turns about one axis
Body(kind, mass, radius, position, velocity, fixedRotation) ==
  [kind |-> kind, mass |-> mass, radius |-> radius, position |-> position,
   quaternion |-> 0, velocity |-> velocity, angularVelocity |-> 0,
   fixedRotation |-> fixedRotation]

Mesh(position) == [position |-> position, quaternion |-> 0]

\* f with key k bound to v (k may be new)
Put(f, k, v) == [x \in DOMAIN f \cup {k} |-> IF x = k THEN v ELSE f[x]]

\* body.threemesh is set
HasMesh(id) == id \in DOMAIN meshes

\* one mesh object made once for each kind of body and used for all of them
SharedMesh(id) == <<"mesh", id[1]>>

\* new THREE.Mesh(geometry, material) in the call that makes body `id`: a new object
NewMesh(id) == <<"mesh", id>>

\* body.threemesh = mesh: the property holds the mesh assigned last
Bind(pairs, id, mesh) == {p \in pairs : p[1] # id} \cup {<<id, mesh>>}

SeqToSet(s) == {s[i] : i \in DOMAIN s}

(****************************** startup *************************************)
\* the grid walk of createBuildings: x and z from -SIZE/2 to SIZE/2 in steps of SPACING
GridCoords == {c \in (-(GROUND_SIZE \div 2))..(GROUND_SIZE \div 2) :
                 (c + GROUND_SIZE \div 2) % BUILDING_SPACING = 0}
GridCells == GridCoords \X GridCoords
\* position of a cell in the walk (x outer loop, z inner loop)
CellIndex(cell) ==
  ((cell[1] + GROUND_SIZE \div 2) \div BUILDING_SPACING) * Cardinality(GridCoords)
    + (cell[2] + GROUND_SIZE \div 2) \div BUILDING_SPACING
Building(cell) == <<"building", CellIndex(cell)>>
\* the cells whose Math.random() draw the model lets fall below PROBABILITY, and the
\* heights Math.random() * HEIGHT_VARIATION + BASE_HEIGHT it lets come out
ModelCells == {<<-(GROUND_SIZE \div 2), -(GROUND_SIZE \div 2)>>,
               <<-(GROUND_SIZE \div 2), BUILDING_SPACING - GROUND_SIZE \div 2>>}
ModelHeights == {BUILDING_BASE_HEIGHT + BUILDING_HEIGHT_VARIATION \div 2}
Layouts == [ModelCells -> ModelHeights]

RECURSIVE InWalkOrder(_)
InWalkOrder(cells) ==
  IF cells = {} THEN <<>>
  ELSE LET first == CHOOSE c \in cells : \A d \in cells : CellIndex(c) <= CellIndex(d)
       IN  <<first>> \o InWalkOrder(cells \ {first})

\* the position createBuildings gives the building of a cell, mesh and body alike
BuildingPosition(cell, height) == <<cell[1], height \div 2, cell[2]>>

Init ==
  /\ pc = "loading"
  /\ keyMap = [k \in MoveKeys |-> FALSE]
  /\ camera = [position |-> CAMERA_START_POSITION, quaternion |-> <<0, 0>>]
  /\ bodies = <<>>
  /\ world = <<>>
  /\ meshes = <<>>
  /\ scene = {}
  /\ activeProjectiles = <<>>
  /\ bullets = <<>>
  /\ bombs = <<>>
  /\ nextId = 1
  /\ frames = 0
  /\ phases = <<>>
  /\ stepCalls = <<>>
  /\ visited = <<>>
  /\ passStart = <<>>
  /\ retireCount = <<>>
  /\ lateWrites = {}
  /\ inputs = 0
  /\ textures = [path \in Textures |-> "pending"]
  /\ console = <<>>
  /\ threemesh = {}

\* loadTexture: the loader calls onLoad and the promise of `path` resolves
TextureLoaded(path) ==
  /\ pc \in {"loading", "failed"}
  /\ textures[path] = "pending"
  /\ textures' = [textures EXCEPT ![path] = "loaded"]
  /\ UNCHANGED <<pc, console, threemesh, keyMap, camera, bodies, world, meshes, scene,
                 activeProjectiles, bullets,
                 bombs, nextId, frames, phases, stepCalls, visited, passStart, retireCount, lateWrites,
                 inputs>>

\* a gate that opens on the first texture
AnyResolved(loaded) == \E path \in Textures : loaded[path] = "loaded"

\* Promise.all: fulfilled when every promise is
AllResolved(loaded) == \A path \in Textures : loaded[path] = "loaded"

\* loadTextures: Promise.all resolved; setupScene() builds ground, player and buildings
\* and calls animate(), whose first frame runs before any other event
SetupScene ==
  /\ pc = "loading"
  /\ AllResolved(textures)
  /\ \E layout \in Layouts :
       LET cells == InWalkOrder(DOMAIN layout)
           built == [i \in DOMAIN cells |-> Building(cells[i])]
           withGround == Put(bodies, GROUND, Body("ground", 0, 0, Zero3, Zero3, FALSE))
           withPlayer == Put(withGround, PLAYER,
                             Body("player", PLAYER_MASS, PLAYER_RADIUS, camera.position, Zero3, TRUE))
       IN  /\ bodies' = [id \in DOMAIN withPlayer \cup SeqToSet(built) |->
                           IF id \in DOMAIN withPlayer THEN withPlayer[id]
                           ELSE LET cell == CHOOSE c \in DOMAIN layout : Building(c) = id
                                IN  Body("building", BUILDING_MASS, 0,
                                         BuildingPosition(cell, layout[cell]), Zero3, FALSE)]
           /\ meshes' = [id \in DOMAIN meshes \cup SeqToSet(built) |->
                           IF id \in DOMAIN meshes THEN meshes[id]
                           ELSE LET cell == CHOOSE c \in DOMAIN layout : Building(c) = id
                                IN  Mesh(BuildingPosition(cell, layout[cell]))]
           /\ world' = world \o <<GROUND, PLAYER>> \o built
           /\ scene' = scene \cup SeqToSet(built)
           /\ threemesh' = threemesh \cup {<<id, NewMesh(id)>> : id \in SeqToSet(built)}
  /\ pc' = "start"
  /\ UNCHANGED <<textures, console, keyMap, camera, activeProjectiles, bullets, bombs, nextId, frames, phases,
                 stepCalls,
                 visited, passStart, retireCount, lateWrites, inputs>>

\* the message loadTexture rejects with
Failure(path) == <<"Failed to load texture", path>>

\* a catch block that writes nothing
LoadFailedSilently(path) ==
  /\ pc \in {"loading", "failed"}
  /\ textures[path] = "pending"
  /\ textures' = [textures EXCEPT ![path] = "failed"]
  /\ pc' = "failed"
  /\ UNCHANGED <<console, threemesh, keyMap, camera, bodies, world, meshes, scene, activeProjectiles, bullets,
                 bombs, nextId, frames, phases, stepCalls, visited, passStart, retireCount, lateWrites,
                 inputs>>

\* loadTexture: the loader calls onError and the promise of `path` rejects.  The first
\* rejection rejects Promise.all: loadTextures skips setupScene() and its catch block
\* logs the message; a later rejection has no observer left.
LoadFailed(path) ==
  /\ pc \in {"loading", "failed"}
  /\ textures[path] = "pending"
  /\ textures' = [textures EXCEPT ![path] = "failed"]
  /\ pc' = "failed"
  /\ console' = IF pc = "loading" THEN Append(console, Failure(path)) ELSE console
  /\ UNCHANGED <<threemesh, keyMap, camera, bodies, world, meshes, scene, activeProjectiles, bullets,
                 bombs, nextId, frames, phases, stepCalls, visited, passStart, retireCount, lateWrites,
                 inputs>>

(*************************** input handlers *********************************)
\* the host runs a handler only between two frame callbacks
BetweenFrames == pc \in {"loading", "failed", "idle"}

\* an input event that changes nothing is always possible; one that changes the
\* state takes one of the MaxInputs events of the run
Counted(changed) ==
  /\ inputs' = IF changed THEN inputs + 1 ELSE inputs
  /\ inputs' <= MaxInputs

\* a listener without the test: keyMap[event.key] = true for every key
PressedAny(km, key) == [k \in DOMAIN km \cup {key} |-> IF k = key THEN TRUE ELSE km[k]]

\* keydown listener: if (event.key in keyMap) keyMap[event.key] = true
Pressed(km, key) == IF key \in DOMAIN km THEN [km EXCEPT ![key] = TRUE] ELSE km

\* keyup listener: if (event.key in keyMap) keyMap[event.key] = false
Released(km, key) == IF key \in DOMAIN km THEN [km EXCEPT ![key] = FALSE] ELSE km

KeyDown(key) ==
  /\ BetweenFrames
  /\ keyMap' = Pressed(keyMap, key)
  /\ Counted(keyMap' # keyMap)
  /\ UNCHANGED <<textures, console, threemesh, pc, camera, bodies, world, meshes, scene,
                 activeProjectiles, bullets, bombs, nextId,
                 frames, phases, stepCalls, visited, passStart, retireCount, lateWrites>>

KeyUp(key) ==
  /\ BetweenFrames
  /\ keyMap' = Released(keyMap, key)
  /\ Counted(keyMap' # keyMap)
  /\ UNCHANGED <<textures, console, threemesh, pc, camera, bodies, world, meshes, scene,
                 activeProjectiles, bullets, bombs, nextId,
                 frames, phases, stepCalls, visited, passStart, retireCount, lateWrites>>

\* PointerLockControls turns the camera on mousemove; the controls exist once setupScene ran
Look(q) ==
  /\ pc = "idle"
  /\ camera' = [camera EXCEPT !.quaternion = q]
  /\ Counted(camera' # camera)
  /\ UNCHANGED <<textures, console, threemesh, pc, keyMap, bodies, world, meshes, scene,
                 activeProjectiles, bullets, bombs, nextId,
                 frames, phases, stepCalls, visited, passStart, retireCount, lateWrites>>

\* where spawnProjectile puts the mesh and the body
SpawnPosition(cam) ==
  VAdd(VScale(GetWorldDirection(cam.quaternion), SPAWN_OFFSET), cam.position)

\* a spawn that gives every projectile the same speed
SpawnVelocityOneSpeed(cam, type) ==
  VScale(GetWorldDirection(cam.quaternion), BULLET_SPEED)

\* the velocity spawnProjectile gives the body
SpawnVelocity(cam, type) ==
  VScale(GetWorldDirection(cam.quaternion), PROJECTILE_SETTINGS(type).SPEED)

\* a spawn that does not add the body to the Set
SpawnProjectileUntracked(type) ==
  LET id == Projectile(nextId)
      settings == PROJECTILE_SETTINGS(type)
  IN  /\ meshes' = Put(meshes, id, Mesh(SpawnPosition(camera)))
      /\ threemesh' = Bind(threemesh, id, NewMesh(id))
      /\ scene' = scene \cup {id}
      /\ bodies' = Put(bodies, id,
                       Body(type, settings.MASS, settings.RADIUS, SpawnPosition(camera),
                            SpawnVelocity(camera, type), FALSE))
      /\ world' = Append(world, id)
      /\ activeProjectiles' = activeProjectiles
      /\ retireCount' = Put(retireCount, id, 0)
      /\ nextId' = nextId + 1
      /\ UNCHANGED <<bullets, bombs>>

\* spawnProjectile(type)
SpawnProjectile(type) ==
  LET id == Projectile(nextId)
      settings == PROJECTILE_SETTINGS(type)
  IN  /\ meshes' = Put(meshes, id, Mesh(SpawnPosition(camera)))
      /\ threemesh' = Bind(threemesh, id, NewMesh(id))
      /\ scene' = scene \cup {id}
      /\ bodies' = Put(bodies, id,
                       Body(type, settings.MASS, settings.RADIUS, SpawnPosition(camera),
                            SpawnVelocity(camera, type), FALSE))
      /\ world' = Append(world, id)
      /\ activeProjectiles' = Append(activeProjectiles, id)
      /\ retireCount' = Put(retireCount, id, 0)
      /\ nextId' = nextId + 1
      /\ UNCHANGED <<bullets, bombs>>

\* the mousedown listener
MouseDown(button) ==
  /\ BetweenFrames
  /\ IF button = 0 THEN SpawnProjectile("bullet")
     ELSE IF button = 2 THEN SpawnProjectile("bomb")
     ELSE UNCHANGED <<bodies, world, meshes, threemesh, scene, activeProjectiles, bullets, bombs, nextId,
                      retireCount>>
  /\ Counted(button \in {0, 2})
  /\ UNCHANGED <<textures, console, pc, keyMap, camera, frames, phases, stepCalls, visited, passStart,
                 lateWrites>>

(***************************** frame callback *******************************)
\* animate(): requestAnimationFrame(animate), then updatePlayer()
UpdatePlayer ==
  /\ pc \in {"start", "idle"}
  /\ frames < MaxFrames
  /\ frames' = frames + 1
  /\ bodies' = [bodies EXCEPT ![PLAYER].velocity =
                  PlayerVelocity(MoveVector(keyMap), camera.quaternion, bodies[PLAYER].velocity)]
  /\ camera' = [camera EXCEPT !.position = bodies[PLAYER].position]
  /\ phases' = <<"player">>
  /\ stepCalls' = <<>>
  /\ pc' = "step"
  /\ UNCHANGED <<textures, console, threemesh, keyMap, world, meshes, scene, activeProjectiles, bullets,
                 bombs, nextId,
                 visited, passStart, retireCount, lateWrites, inputs>>

\* position.length() > MAX_DISTANCE
Beyond(position) == LengthSquared(position) > MAX_DISTANCE * MAX_DISTANCE

\* What the solver of world.step may make of a dynamic body: "free" flight under
\* gravity, "rest" (contacts stop the body, which may keep spinning), "eject" (a
\* contact impulse throws it away).  The player, dropped at CAMERA_START_POSITION,
\* is in free flight during the first frames.
StepChoices(b) ==
  IF b.kind = "player" THEN {"free"}
  ELSE {"free", "rest"} \cup (IF Beyond(b.position) THEN {} ELSE {"eject"})

SolvedVelocity(b, c) ==
  IF c = "free" THEN VAdd(b.velocity, <<0, TruncDiv(GRAVITY_Y, TIME_STEP_HZ), 0>>)
  ELSE IF c = "rest" THEN Zero3
  ELSE [i \in 1..3 |-> Sgn(b.velocity[i]) * EjectSpeed]

SolvedSpin(b, c) ==
  IF b.fixedRotation THEN 0
  ELSE IF c = "rest" THEN 1
  ELSE b.angularVelocity

\* Body.integrate(dt): position += velocity * dt, the quaternion turns by angularVelocity * dt
Integrate(b, c) ==
  LET v == SolvedVelocity(b, c)
      w == SolvedSpin(b, c)
  IN  [b EXCEPT !.velocity = v,
                !.angularVelocity = w,
                !.position = VAdd(b.position, [i \in 1..3 |-> TruncDiv(v[i], TIME_STEP_HZ)]),
                !.quaternion = (b.quaternion + w) % 4]

\* updatePhysics, first half: world.step(TIME_STEP); bodies of mass 0 are static
WorldStep ==
  /\ pc = "step"
  /\ LET dynamic == {id \in SeqToSet(world) : bodies[id].mass > 0}
     IN  \E choice \in [dynamic -> {"free", "rest", "eject"}] :
           /\ \A id \in dynamic : choice[id] \in StepChoices(bodies[id])
           /\ bodies' = [id \in DOMAIN bodies |->
                           IF id \in dynamic THEN Integrate(bodies[id], choice[id])
                           ELSE bodies[id]]
  /\ stepCalls' = Append(stepCalls, TIME_STEP_HZ)
  /\ phases' = Append(phases, "step")
  /\ pc' = "sync"
  /\ UNCHANGED <<textures, console, threemesh, keyMap, camera, world, meshes, scene, activeProjectiles,
                 bullets, bombs, nextId, frames,
                 visited, passStart, retireCount, lateWrites, inputs>>

\* body.velocity.lengthSquared() > 0: a sum of squares is positive exactly when a
\* component is not zero
Moving(b) == \E i \in 1..3 : b.velocity[i] # 0

\* main.js copies every body that has a mesh
SyncsMain(b) == TRUE

\* part_000, updatePhysics: the condition beside body.threemesh
Syncs(b) == Moving(b)

Transform(b) == [position |-> b.position, quaternion |-> b.quaternion]

\* updatePhysics, second half: world.bodies.forEach copies body transforms to meshes
SyncBodies ==
  /\ pc = "sync"
  /\ LET written == {id \in SeqToSet(world) : HasMesh(id) /\ Syncs(bodies[id])}
     IN  /\ meshes' = [id \in DOMAIN meshes |->
                         IF id \in written THEN Transform(bodies[id]) ELSE meshes[id]]
         /\ lateWrites' = lateWrites \cup {id \in written : id \in DOMAIN retireCount /\ retireCount[id] > 0}
  /\ phases' = Append(phases, "sync")
  /\ pc' = "projectiles"
  /\ UNCHANGED <<textures, console, threemesh, keyMap, camera, bodies, world, scene, activeProjectiles,
                 bullets, bombs, nextId, frames,
                 stepCalls, visited, passStart, retireCount, inputs>>

\* a removal that removes nothing
RemoveNothing(list, id) == list

\* world.removeBody(body)
Remove(list, id) == SelectSeq(list, LAMBDA x : x # id)
\* Array.prototype.splice(k, 1), k counted from 1
RemoveAt(list, k) == SubSeq(list, 1, k - 1) \o SubSeq(list, k + 1, Len(list))

\* a retirement that leaves the projectile in the Set
DeleteForgotten(list, id) == list

\* activeProjectiles.delete(projectile)
Delete(list, id) == Remove(list, id)

\* the body of the loop of updateProjectiles, up to the removal from the collection;
\* st holds meshes, world, scene and the histories as the pass goes
Visit(st, id) ==
  LET synced == [st EXCEPT !.meshes[id] = Transform(bodies[id]),
                           !.visited = Append(@, id),
                           !.lateWrites = IF st.retireCount[id] > 0 THEN @ \cup {id} ELSE @]
  IN  IF Beyond(bodies[id].position)
      THEN [synced EXCEPT !.world = Remove(@, id),
                          !.scene = @ \ {id},
                          !.retireCount[id] = @ + 1]
      ELSE synced

\* Array.prototype.forEach with splice(index, 1) in the callback (main.js): index k runs
\* over the length the array had at the start, and an index past the end is skipped
RECURSIVE ArrayPass(_, _, _)
ArrayPass(len0, k, st) ==
  IF k > len0 THEN st
  ELSE IF k > Len(st.list) THEN ArrayPass(len0, k + 1, st)
  ELSE LET id == st.list[k]
           seen == Visit(st, id)
       IN  ArrayPass(len0, k + 1,
                     IF Beyond(bodies[id].position)
                     THEN [seen EXCEPT !.list = RemoveAt(@, k)]
                     ELSE seen)

\* for (const projectile of activeProjectiles) with delete(projectile) in the loop
\* (part_000): the Set iterator walks the entries in insertion order and passes over
\* an entry only if it was deleted before the iterator reached it
RECURSIVE SetPass(_, _, _)
SetPass(entries, i, st) ==
  IF i > Len(entries) THEN st
  ELSE LET id == entries[i]
       IN  IF id \notin SeqToSet(st.list) THEN SetPass(entries, i + 1, st)
           ELSE LET seen == Visit(st, id)
                IN  SetPass(entries, i + 1,
                            IF Beyond(bodies[id].position)
                            THEN [seen EXCEPT !.list = Delete(@, id)]
                            ELSE seen)

ForEachSplice(list, st) == ArrayPass(Len(list), 1, [st EXCEPT !.list = list])

\* one pass of part_000's updateProjectiles over the Set
ForOfSet(list, st) == SetPass(list, 1, [st EXCEPT !.list = list])

PassState ==
  [meshes |-> meshes, world |-> world, scene |-> scene, visited |-> <<>>,
   retireCount |-> retireCount, lateWrites |-> lateWrites, list |-> <<>>]

UpdateProjectiles ==
  /\ pc = "projectiles"
  /\ LET done == ForOfSet(activeProjectiles, PassState)
     IN  /\ meshes' = done.meshes
         /\ world' = done.world
         /\ scene' = done.scene
         /\ visited' = done.visited
         /\ retireCount' = done.retireCount
         /\ lateWrites' = done.lateWrites
         /\ activeProjectiles' = done.list
  /\ passStart' = activeProjectiles
  /\ phases' = Append(phases, "projectiles")
  /\ pc' = "render"
  /\ UNCHANGED <<textures, console, threemesh, keyMap, camera, bodies, bullets, bombs, nextId, frames,
                 stepCalls, inputs>>

\* renderer.render(scene, camera); the callback returns
Render ==
  /\ pc = "render"
  /\ phases' = Append(phases, "render")
  /\ pc' = "idle"
  /\ UNCHANGED <<textures, console, threemesh, keyMap, camera, bodies, world, meshes, scene,
                 activeProjectiles, bullets, bombs, nextId,
                 frames, stepCalls, visited, passStart, retireCount, lateWrites, inputs>>

Next ==
  \/ \E path \in Textures : TextureLoaded(path)
  \/ SetupScene
  \/ \E path \in Textures : LoadFailed(path)
  \/ \E key \in Keys : KeyDown(key)
  \/ \E key \in Keys : KeyUp(key)
  \/ \E q \in Orientations : Look(q)
  \/ \E button \in Buttons : MouseDown(button)
  \/ UpdatePlayer
  \/ WorldStep
  \/ SyncBodies
  \/ UpdateProjectiles
  \/ Render

Spec == Init /\ [][Next]_vars

(***************************************************************************)
(* The first variant of the program, src/src/main.js: everything is built  *)
(* while the module loads, animate() is called at its end, bullets and     *)
(* bombs are kept in two arrays.                                           *)
(***************************************************************************)
MAIN_BULLET_RADIUS == 1
\* createBuildings of main.js: the first cell of its walk, and a height
\* Math.random() * 20 + 10 may give
MainBuildingHeight == 200
MainBuildingCell == <<-400, -400>>
MainBuilding == <<"building", 0>>

\* the state when animate() is first called, at the end of the module
InitMain ==
  /\ pc = "start"
  /\ keyMap = [k \in MoveKeys |-> FALSE]
  /\ camera = [position |-> CAMERA_START_POSITION, quaternion |-> <<0, 0>>]
  /\ bodies = [id \in {GROUND, PLAYER, MainBuilding} |->
                 IF id = GROUND THEN Body("ground", 0, 0, Zero3, Zero3, FALSE)
                 ELSE IF id = PLAYER
                 THEN Body("player", PLAYER_MASS, PLAYER_RADIUS, CAMERA_START_POSITION, Zero3, FALSE)
                 ELSE Body("building", 0, 0, BuildingPosition(MainBuildingCell, MainBuildingHeight),
                           Zero3, FALSE)]
  /\ world = <<GROUND, PLAYER, MainBuilding>>
  /\ meshes = [id \in {MainBuilding} |-> Mesh(BuildingPosition(MainBuildingCell, MainBuildingHeight))]
  /\ scene = {MainBuilding}
  /\ activeProjectiles = <<>>
  /\ bullets = <<>>
  /\ bombs = <<>>
  /\ nextId = 1
  /\ frames = 0
  /\ phases = <<>>
  /\ stepCalls = <<>>
  /\ visited = <<>>
  /\ passStart = <<>>
  /\ retireCount = <<>>
  /\ lateWrites = {}
  /\ inputs = 0
  /\ textures = [path \in Textures |-> "loaded"]
  /\ console = <<>>
  /\ threemesh = {<<MainBuilding, NewMesh(MainBuilding)>>}

\* shootBullet / throwBomb: mesh and body at camera.position
SpawnMain(type, radius) ==
  LET id == Projectile(nextId)
  IN  /\ meshes' = Put(meshes, id, Mesh(camera.position))
      /\ scene' = scene \cup {id}
      /\ bodies' = Put(bodies, id,
                       Body(type, PROJECTILE_SETTINGS(type).MASS, radius, camera.position,
                            SpawnVelocity(camera, type), FALSE))
      /\ world' = Append(world, id)
      /\ retireCount' = Put(retireCount, id, 0)
      /\ nextId' = nextId + 1

ShootBullet ==
  /\ SpawnMain("bullet", MAIN_BULLET_RADIUS)
  /\ threemesh' = Bind(threemesh, Projectile(nextId), NewMesh(Projectile(nextId)))
  /\ bullets' = Append(bullets, Projectile(nextId))
  /\ UNCHANGED bombs

\* throwBomb assigns bombBody.threemesh = bombMesh twice
ThrowBomb ==
  /\ SpawnMain("bomb", BOMB_RADIUS)
  /\ threemesh' = Bind(Bind(threemesh, Projectile(nextId), NewMesh(Projectile(nextId))),
                       Projectile(nextId), NewMesh(Projectile(nextId)))
  /\ bombs' = Append(bombs, Projectile(nextId))
  /\ UNCHANGED bullets

\* the mousedown listener of main.js
MouseDownMain(button) ==
  /\ BetweenFrames
  /\ IF button = 0 THEN ShootBullet
     ELSE IF button = 2 THEN ThrowBomb
     ELSE UNCHANGED <<bodies, world, meshes, threemesh, scene, bullets, bombs, nextId, retireCount>>
  /\ Counted(button \in {0, 2})
  /\ UNCHANGED <<textures, console, pc, keyMap, camera, activeProjectiles, frames, phases, stepCalls, visited,
                 passStart, lateWrites>>

\* animate() of main.js: requestAnimationFrame(animate), then updatePlayer()
UpdatePlayerMain ==
  /\ pc \in {"start", "idle"}
  /\ frames < MaxFrames
  /\ frames' = frames + 1
  /\ bodies' = [bodies EXCEPT ![PLAYER].velocity =
                  PlayerVelocity(MoveVectorMain(keyMap), camera.quaternion, bodies[PLAYER].velocity)]
  /\ camera' = [camera EXCEPT !.position = bodies[PLAYER].position]
  /\ phases' = <<"player">>
  /\ stepCalls' = <<>>
  /\ pc' = "step"
  /\ UNCHANGED <<textures, console, threemesh, keyMap, world, meshes, scene, activeProjectiles, bullets,
                 bombs, nextId,
                 visited, passStart, retireCount, lateWrites, inputs>>

\* updatePhysics of main.js, second half
SyncBodiesMain ==
  /\ pc = "sync"
  /\ LET written == {id \in SeqToSet(world) : HasMesh(id) /\ SyncsMain(bodies[id])}
     IN  /\ meshes' = [id \in DOMAIN meshes |->
                         IF id \in written THEN Transform(bodies[id]) ELSE meshes[id]]
         /\ lateWrites' = lateWrites \cup {id \in written : id \in DOMAIN retireCount /\ retireCount[id] > 0}
  /\ phases' = Append(phases, "sync")
  /\ pc' = "projectiles"
  /\ UNCHANGED <<textures, console, threemesh, keyMap, camera, bodies, world, scene, activeProjectiles,
                 bullets, bombs, nextId,
                 frames, stepCalls, visited, passStart, retireCount, inputs>>

\* updateProjectiles of main.js: bullets.forEach, then bombs.forEach
UpdateProjectilesMain ==
  /\ pc = "projectiles"
  /\ LET afterBullets == ForEachSplice(bullets, PassState)
         done == ForEachSplice(bombs, afterBullets)
     IN  /\ meshes' = done.meshes
         /\ world' = done.world
         /\ scene' = done.scene
         /\ visited' = done.visited
         /\ retireCount' = done.retireCount
         /\ lateWrites' = done.lateWrites
         /\ bullets' = afterBullets.list
         /\ bombs' = done.list
  /\ passStart' = bullets \o bombs
  /\ phases' = Append(phases, "projectiles")
  /\ pc' = "render"
  /\ UNCHANGED <<textures, console, threemesh, keyMap, camera, bodies, activeProjectiles, nextId,
                 frames, stepCalls, inputs>>

NextMain ==
  \/ \E key \in Keys : KeyDown(key)
  \/ \E key \in Keys : KeyUp(key)
  \/ \E q \in Orientations : Look(q)
  \/ \E button \in Buttons : MouseDownMain(button)
  \/ UpdatePlayerMain
  \/ WorldStep
  \/ SyncBodiesMain
  \/ UpdateProjectilesMain
  \/ Render

SpecMain == InitMain /\ [][NextMain]_vars

(***************************************************************************)
(* Claims                                                                  *)
(***************************************************************************)
\* the projectiles the program still tracks, whichever collection the variant uses
Active == SeqToSet(activeProjectiles) \cup SeqToSet(bullets) \cup SeqToSet(bombs)
InWorld(id) == id \in SeqToSet(world)
AfterPass == pc = "render"

\* C1: a projectile that is active and farther than MAX_DISTANCE from the origin when
\* updateProjectiles runs is, when that pass ends, out of the active collection, out of
\* the world and out of the scene, and no pass visits a projectile retired before it.
C1_RetiredInSameFrame ==
  /\ AfterPass =>
       \A id \in SeqToSet(passStart) :
         Beyond(bodies[id].position) =>
           /\ id \notin Active
           /\ ~InWorld(id)
           /\ id \notin scene
  /\ \A id \in SeqToSet(visited) : id \notin lateWrites

\* C1, witness: two projectiles crossed the threshold in the same frame and both are gone
C1_Witness ==
  /\ AfterPass
  /\ Cardinality({id \in SeqToSet(passStart) : Beyond(bodies[id].position)}) >= 2
  /\ Active = {}

Occurrences(list, x) == Cardinality({i \in DOMAIN list : list[i] = x})

\* C2: every projectile that is active when an updateProjectiles pass starts is visited
\* exactly once in that pass, whichever projectiles the pass retires.
C2_EachVisitedOnce ==
  AfterPass =>
    /\ \A id \in SeqToSet(passStart) : Occurrences(visited, id) = 1
    /\ SeqToSet(visited) \subseteq SeqToSet(passStart)

\* C3: no projectile is retired more than once, and the mesh of a retired projectile is
\* written neither by the sync of updatePhysics nor by updateProjectiles.
C3_RetiredOnceNeverSynced ==
  /\ \A id \in DOMAIN retireCount : retireCount[id] <= 1
  /\ lateWrites = {}

\* C3, witness: a whole frame has run after a projectile was retired
C3_Witness ==
  /\ AfterPass
  /\ \E id \in DOMAIN retireCount : retireCount[id] = 1 /\ id \notin SeqToSet(passStart)
  /\ \E id \in DOMAIN retireCount : id \in SeqToSet(visited)

\* C4: right after the sync loop of updatePhysics, the mesh of every body of the world
\* that has one carries the position and the quaternion world.step gave the body.
C4_MeshesFreshAfterSync ==
  pc = "projectiles" =>
    \A id \in SeqToSet(world) : HasMesh(id) => meshes[id] = Transform(bodies[id])

C5_ClaimedOrder == <<"step", "player", "sync", "projectiles", "render">>

\* C5: the phases of a frame run once each in the order physics step, player update,
\* binding sync, projectile update, render, and world.step is called at most once per
\* frame, with 1/60.
C5_PhasesInOrder ==
  /\ \E n \in 0..Len(C5_ClaimedOrder) : phases = SubSeq(C5_ClaimedOrder, 1, n)
  /\ pc = "idle" => phases = C5_ClaimedOrder
  /\ Len(stepCalls) <= 1
  /\ \A i \in DOMAIN stepCalls : stepCalls[i] = TIME_STEP_HZ

\* C6: when the frame is rendered the camera is where world.step of that frame left
\* the player body.
C6_CameraAtPlayerWhenRendered ==
  pc = "render" => camera.position = bodies[PLAYER].position

\* C7: an input event (a step that is not a step of the frame callback) changes neither
\* the bodies of the world, nor which bodies have a mesh, nor the active projectiles.
C7_InputsLeaveCoreState ==
  [][(BetweenFrames /\ pc' = pc) =>
       /\ world' = world
       /\ DOMAIN meshes' = DOMAIN meshes
       /\ activeProjectiles' = activeProjectiles]_vars

(***************************************************************************)
(* updatePlayer as a function of the keys held, the camera orientation and *)
(* the vertical velocity of the player: the state before the call is drawn *)
(* from all of them, and either variant's updatePlayer is applied to it.   *)
(***************************************************************************)
AllOrientations == (0..3) \X (-1..1)
FallSpeeds == {GRAVITY_Y, 0, PLAYER_VELOCITY}

InitMove ==
  /\ pc = "idle"
  /\ keyMap \in [MoveKeys -> BOOLEAN]
  /\ \E q \in AllOrientations :
       camera = [position |-> CAMERA_START_POSITION, quaternion |-> q]
  /\ \E vy \in FallSpeeds :
       bodies = [id \in {GROUND, PLAYER, MainBuilding, Projectile(1)} |->
                   IF id = GROUND THEN Body("ground", 0, 0, Zero3, Zero3, FALSE)
                   ELSE IF id = PLAYER
                   THEN Body("player", PLAYER_MASS, PLAYER_RADIUS, CAMERA_START_POSITION,
                             <<0, vy, 0>>, TRUE)
                   ELSE IF id = MainBuilding
                   THEN Body("building", 0, 0, BuildingPosition(MainBuildingCell, MainBuildingHeight),
                             Zero3, FALSE)
                   ELSE Body("bullet", BULLET_MASS, BULLET_RADIUS, SpawnPosition(camera),
                             SpawnVelocity(camera, "bullet"), FALSE)]
  /\ world = <<GROUND, PLAYER, MainBuilding, Projectile(1)>>
  /\ meshes = [id \in {MainBuilding, Projectile(1)} |-> Mesh(bodies[id].position)]
  /\ scene = {MainBuilding, Projectile(1)}
  /\ activeProjectiles = <<Projectile(1)>>
  /\ bullets = <<>>
  /\ bombs = <<>>
  /\ nextId = 2
  /\ frames = 0
  /\ phases = <<>>
  /\ stepCalls = <<>>
  /\ visited = <<>>
  /\ passStart = <<>>
  /\ retireCount = [id \in {Projectile(1)} |-> 0]
  /\ lateWrites = {}
  /\ inputs = 0
  /\ textures = [path \in Textures |-> "loaded"]
  /\ console = <<>>
  /\ threemesh = {<<id, NewMesh(id)>> : id \in {MainBuilding, Projectile(1)}}

NextMove ==
  \/ UpdatePlayer
  \/ UpdatePlayerMain

SpecMove == InitMove /\ [][NextMove]_vars

\* the move vector the claim describes: X = right - left, Z = back - forward
C8_ClaimedVector(km) ==
  << (IF km["d"] THEN 1 ELSE 0) - (IF km["a"] THEN 1 ELSE 0),
     0,
     (IF km["s"] THEN 1 ELSE 0) - (IF km["w"] THEN 1 ELSE 0) >>

AfterUpdatePlayer == pc = "step"

\* C8: for each of the 16 combinations of held keys updatePlayer writes the velocity
\* that the vector (right - left, 0, back - forward) gives, and with only forward held
\* at the initial orientation the written velocity has x = 0 and z < 0.
C8_MoveVectorCancels ==
  AfterUpdatePlayer =>
    LET v == bodies[PLAYER].velocity
        claimed == PlayerVelocity(C8_ClaimedVector(keyMap), camera.quaternion, v)
    IN  /\ v[1] = claimed[1]
        /\ v[3] = claimed[3]
        /\ (camera.quaternion = <<0, 0>> /\ keyMap = [k \in MoveKeys |-> k = "w"]) =>
             (v[1] = 0 /\ v[3] < 0)

\* C9: the horizontal velocity updatePlayer writes is never above PLAYER_VELOCITY
\* (the move vector is at most 1 long), and with a level camera it is zero exactly
\* when no key is held or the held keys cancel on both axes.
C9_MoveMagnitude ==
  AfterUpdatePlayer =>
    LET v == bodies[PLAYER].velocity
    IN  /\ v[1] * v[1] + v[3] * v[3] <= PLAYER_VELOCITY * PLAYER_VELOCITY
        /\ camera.quaternion[2] = 0 =>
             ((v[1] = 0 /\ v[3] = 0) <=> C8_ClaimedVector(keyMap) = Zero3)

\* C10: updatePlayer leaves the vertical velocity of the player body as it was, and
\* changes nothing else of any body than the x and z velocity of the player.
C10_OnlyHorizontalVelocity ==
  [][(pc \in {"start", "idle"} /\ pc' = "step") =>
       /\ bodies'[PLAYER].velocity[2] = bodies[PLAYER].velocity[2]
       /\ [bodies' EXCEPT ![PLAYER].velocity = bodies[PLAYER].velocity] = bodies]_vars

\* C10, witness: updatePlayer has written a horizontal velocity to a falling player
C10_Witness ==
  /\ AfterUpdatePlayer
  /\ bodies[PLAYER].velocity[2] # 0
  /\ bodies[PLAYER].velocity[1] # 0
  /\ bodies[PLAYER].velocity[3] # 0

\* the archetype a mouse button fires
C11_Archetype(button) == IF button = 0 THEN "bullet" ELSE "bomb"

\* C11: the body a mousedown of the primary (secondary) button adds is a bullet (bomb):
\* it has the mass and the radius of its archetype, and its velocity is the direction
\* the camera looks in at that moment times the speed of the archetype.
C11_SpawnVelocity ==
  [][\A button \in {0, 2} :
       MouseDown(button) =>
         LET b == bodies'[Projectile(nextId)]
             type == C11_Archetype(button)
             forward == ApplyQuaternion(<<0, 0, -1>>, camera.quaternion)
         IN  /\ Projectile(nextId) \notin DOMAIN bodies
             /\ b.kind = type
             /\ b.velocity = [i \in 1..3 |->
                                forward[i] * (IF type = "bullet" THEN BULLET_SPEED ELSE BOMB_SPEED)]
             /\ b.mass = (IF type = "bullet" THEN BULLET_MASS ELSE BOMB_MASS)
             /\ b.radius = (IF type = "bullet" THEN BULLET_RADIUS ELSE BOMB_RADIUS)]_vars

\* C11, witness: a bomb has just been thrown with the camera turned away from its
\* initial orientation
C11_Witness ==
  /\ pc = "idle"
  /\ camera.quaternion # <<0, 0>>
  /\ \E id \in SeqToSet(activeProjectiles) :
       /\ bodies[id].kind = "bomb"
       /\ bodies[id].velocity = VScale(GetWorldDirection(camera.quaternion), BOMB_SPEED)
       /\ bodies[id].position = SpawnPosition(camera)

\* C12: the body and the mesh of every projectile are put at the camera position plus
\* the camera direction times SPAWN_OFFSET, and not at the camera position.
C12_SpawnedAhead ==
  [][nextId' = nextId + 1 =>
       LET id == Projectile(nextId)
           ahead == VAdd(camera.position,
                         VScale(ApplyQuaternion(<<0, 0, -1>>, camera.quaternion), SPAWN_OFFSET))
       IN  /\ bodies'[id].position = ahead
           /\ meshes'[id].position = ahead
           /\ bodies'[id].position # camera.position]_vars

\* the three sizes the claim follows: active projectiles, bodies of the world, meshes
\* of the scene
C13_Counts == <<Len(activeProjectiles), Len(world), Cardinality(scene)>>
C13_Shift(counts, n) == <<counts[1] + n, counts[2] + n, counts[3] + n>>
C13_Retired == {id \in DOMAIN retireCount : retireCount[id] >= 1}
C13_Others == {id \in SeqToSet(world) : ~IsProjectile(id)}

\* C13: a mousedown of button 0 or 2 adds exactly one to the number of active
\* projectiles, of bodies in the world and of meshes in the scene; a pass of
\* updateProjectiles takes one off each for every projectile it retires; so the
\* active projectiles are always the spawned ones less the retired ones, and once
\* the projectiles fired are retired the three numbers are what they were without them.
C13_CountReturns ==
  [][/\ \A button \in {0, 2} :
          MouseDown(button) => C13_Counts' = C13_Shift(C13_Counts, 1)
     /\ (pc = "projectiles" /\ pc' = "render") =>
          C13_Counts' = C13_Shift(C13_Counts,
                                  -Cardinality({id \in SeqToSet(activeProjectiles) :
                                                  Beyond(bodies[id].position)}))
     /\ Len(activeProjectiles) = (nextId - 1) - Cardinality(C13_Retired)
     /\ Len(world) = Cardinality(C13_Others) + Len(activeProjectiles)
     /\ Cardinality(scene) = Cardinality(scene \ DOMAIN retireCount) + Len(activeProjectiles)]_vars

\* C13, witness: one bullet was fired after the first frame and the next frame retired it:
\* nothing is active, the world is ground, player and building again
C13_Witness ==
  /\ pc = "idle"
  /\ nextId = 2
  /\ bodies[Projectile(1)].kind = "bullet"
  /\ retireCount[Projectile(1)] = 1
  /\ frames = 2
  /\ visited = <<Projectile(1)>>
  /\ C13_Counts = <<0, Cardinality(C13_Others), Cardinality(scene \ DOMAIN retireCount)>>

\* setupScene has run: ground, player and every building are bodies of the world
C14_SceneSetUp ==
  /\ Occurrences(world, GROUND) = 1
  /\ Occurrences(world, PLAYER) = 1
  /\ \E layout \in Layouts :
       \A cell \in DOMAIN layout :
         /\ Occurrences(world, Building(cell)) = 1
         /\ bodies[Building(cell)].position = BuildingPosition(cell, layout[cell])

\* C14: no frame runs, and updatePlayer reads no player body, before the three textures
\* are loaded and setupScene has added ground, player and buildings; setupScene runs
\* at most once.
C14_TexturesGateFirstFrame ==
  [][/\ (frames > 0 \/ frames' > 0 \/ pc \notin {"loading", "failed"}) =>
          /\ \A path \in Textures : textures[path] = "loaded"
          /\ C14_SceneSetUp
     /\ pc # "loading" => pc' # "loading"
     /\ Occurrences(world, GROUND) <= 1 /\ Occurrences(world, PLAYER) <= 1]_vars

\* C14, witness: the textures loaded one after the other, setupScene ran and two
\* frames followed
C14_Witness ==
  /\ pc = "idle"
  /\ frames = 2
  /\ \A path \in Textures : textures[path] = "loaded"
  /\ C14_SceneSetUp

\* C15: when the load of a texture fails, the message of the first failure is logged,
\* once; from then on setupScene is not called (no ground, player or building is ever
\* added), no frame runs, and a failed load is not started again.
C15_LoadFailureIsFinal ==
  [][/\ (\E path \in Textures : textures[path] = "failed") =>
          /\ pc = "failed" /\ pc' = "failed"
          /\ frames = 0 /\ frames' = 0
          /\ phases = <<>>
          /\ \A id \in SeqToSet(world) \cup SeqToSet(world') : IsProjectile(id)
          /\ Len(console) = 1
          /\ console' = console
          /\ \E path \in Textures : console[1] = Failure(path) /\ textures[path] = "failed"
     /\ \A path \in Textures : textures[path] = "failed" => textures'[path] = "failed"
     /\ (\A path \in Textures : textures[path] # "failed") => console = <<>>]_vars

\* C15, witness: one texture failed after another had loaded, the third loaded
\* afterwards, and an input event arrived
C15_Witness ==
  /\ pc = "failed"
  /\ Cardinality({path \in Textures : textures[path] = "loaded"}) = 2
  /\ Cardinality({path \in Textures : textures[path] = "failed"}) = 1
  /\ inputs > 0

\* the building bodies of the world
C16_Buildings == {id \in SeqToSet(world) : bodies[id].kind = "building"}

\* C16: no two buildings stand in the same grid cell; every building is a static body
\* (mass 0), once in the world, with one mesh in the scene at the position of the body;
\* and once setupScene has run no step adds, moves or removes a building.
C16_BuildingsFixed ==
  [][/\ \A a \in C16_Buildings :
          /\ Occurrences(world, a) = 1
          /\ bodies[a].mass = 0
          /\ HasMesh(a) /\ a \in scene
          /\ meshes[a].position = bodies[a].position
          /\ <<bodies[a].position[1], bodies[a].position[3]>> \in GridCells
          /\ \A b \in C16_Buildings :
               (bodies[a].position[1] = bodies[b].position[1]
                  /\ bodies[a].position[3] = bodies[b].position[3]) => a = b
     /\ pc \in {"loading", "failed"} => C16_Buildings = {}
     /\ pc \notin {"loading", "failed"} =>
          /\ C16_Buildings' = C16_Buildings
          /\ \A a \in C16_Buildings : bodies'[a] = bodies[a] /\ meshes'[a] = meshes[a]]_vars

\* C16, witness: two buildings stand, two frames have run and a projectile was retired
C16_Witness ==
  /\ pc = "idle"
  /\ frames = 2
  /\ Cardinality(C16_Buildings) = 2
  /\ \E id \in DOMAIN retireCount : retireCount[id] = 1

C18_DistanceSquared(a, b) ==
  LengthSquared(<<a[1] - b[1], a[2] - b[2], a[3] - b[3]>>)

\* C18: when a projectile is spawned, its centre is at least the radius of the player
\* plus its own radius away from the position the player body has at that moment,
\* whenever between two frames the mousedown arrives.
C18_SpawnClearOfPlayer ==
  [][(nextId' = nextId + 1 /\ PLAYER \in DOMAIN bodies) =>
       LET b == bodies'[Projectile(nextId)]
           reach == PLAYER_RADIUS + b.radius
       IN  C18_DistanceSquared(b.position, bodies[PLAYER].position) >= reach * reach]_vars

C19_FrameBoundary == pc \in {"loading", "failed", "start", "idle"}

\* C19: between two frames the active collection, the projectile bodies of the world and
\* the projectile meshes of the scene are the same projectiles; the world is ground,
\* player, buildings and active projectiles, each once, and every mesh of the scene
\* belongs to a body of the world.
C19_ViewsAgree ==
  C19_FrameBoundary =>
    /\ Active = {id \in SeqToSet(world) : IsProjectile(id)}
    /\ Active = {id \in scene : IsProjectile(id)}
    /\ Len(activeProjectiles) + Len(bullets) + Len(bombs) = Cardinality(Active)
    /\ Len(world) = Cardinality(SeqToSet(world))
    /\ scene \subseteq SeqToSet(world)
    /\ \A id \in SeqToSet(world) : HasMesh(id) => id \in scene
    /\ pc \in {"start", "idle"} =>
         SeqToSet(world) = {GROUND, PLAYER} \cup C16_Buildings \cup Active

\* C19, witness: after two frames one projectile is active and another was retired
C19_Witness ==
  /\ pc = "idle"
  /\ frames = 2
  /\ Cardinality(Active) = 1
  /\ \E id \in DOMAIN retireCount : retireCount[id] = 1

C20_NoKeyHeld == keyMap = [k \in MoveKeys |-> FALSE]

\* C20: updatePlayer writes the horizontal velocity from the keys held at that moment:
\* with every move key released the frame writes x = 0 and z = 0, whatever was held in
\* the frames before; and an input event by itself never changes the velocity of the
\* player body, so a key pressed and released between two frames leaves no trace.
C20_VelocityFromKeysHeld ==
  [][/\ (AfterUpdatePlayer /\ C20_NoKeyHeld) =>
          (bodies[PLAYER].velocity[1] = 0 /\ bodies[PLAYER].velocity[3] = 0)
     /\ (BetweenFrames /\ pc' = pc /\ PLAYER \in DOMAIN bodies) =>
          bodies'[PLAYER] = bodies[PLAYER]
     /\ (pc \in {"start", "idle"} /\ pc' = "step" /\ C20_NoKeyHeld) =>
          (bodies'[PLAYER].velocity[1] = 0 /\ bodies'[PLAYER].velocity[3] = 0)]_vars

\* C20, witness: a key was held during the first frame (the player has moved) and
\* released before the second, whose updatePlayer has just run
C20_Witness ==
  /\ AfterUpdatePlayer
  /\ frames = 2
  /\ C20_NoKeyHeld
  /\ inputs = 2
  /\ bodies[PLAYER].position[1] # 0 \/ bodies[PLAYER].position[3] # 0
  /\ bodies[PLAYER].velocity[1] = 0 /\ bodies[PLAYER].velocity[3] = 0

C17_MeshesOf(id) == {p[2] : p \in {q \in threemesh : q[1] = id}}
C17_BodiesOf(mesh) == {p[1] : p \in {q \in threemesh : q[2] = mesh}}

\* C17: every body carries at most one mesh, no mesh is carried by two bodies, and a
\* body whose threemesh is assigned again (throwBomb assigns it twice) still has one
\* pairing; the bodies with a pairing are the bodies with a mesh.
C17_BindingOneToOne ==
  /\ \A p \in threemesh :
       /\ Cardinality(C17_MeshesOf(p[1])) = 1
       /\ Cardinality(C17_BodiesOf(p[2])) = 1
  /\ {p[1] : p \in threemesh} = DOMAIN meshes
  /\ Cardinality(threemesh) = Cardinality(DOMAIN meshes)

\* C17, witness: two bombs were thrown, each bound twice, beside the building
C17_Witness ==
  /\ Len(bombs) = 2
  /\ Cardinality(threemesh) = 3

\* the projectiles a mousedown of `button` is to spawn
C21_Spawned(button) == IF button \in {0, 2} THEN 1 ELSE 0

\* C21: a keydown (keyup) of a move key sets the flag of that key to true (false) and
\* leaves the other flags alone, a key event of any other key leaves keyMap as it is,
\* and nothing but a key event changes keyMap; a mousedown of button 0 or 2 adds exactly
\* one projectile, a mousedown of another button adds none.
C21_InputEffects ==
  [][/\ \A key \in Keys :
          /\ KeyDown(key) =>
               keyMap' = [k \in MoveKeys |-> IF k = key THEN TRUE ELSE keyMap[k]]
          /\ KeyUp(key) =>
               keyMap' = [k \in MoveKeys |-> IF k = key THEN FALSE ELSE keyMap[k]]
     /\ keyMap' # keyMap => \E key \in MoveKeys : KeyDown(key) \/ KeyUp(key)
     /\ \A button \in Buttons :
          MouseDown(button) =>
            /\ nextId' = nextId + C21_Spawned(button)
            /\ Len(activeProjectiles') = Len(activeProjectiles) + C21_Spawned(button)
            /\ Len(world') = Len(world) + C21_Spawned(button)
            /\ Cardinality(DOMAIN bodies') = Cardinality(DOMAIN bodies) + C21_Spawned(button)
            /\ Cardinality(scene') = Cardinality(scene) + C21_Spawned(button)]_vars

\* C21, witness: a move key is held down and a mousedown has spawned one projectile
C21_Witness ==
  /\ inputs = MaxInputs
  /\ \E key \in MoveKeys : keyMap[key]
  /\ nextId = 2
  /\ Len(activeProjectiles) = 1

====
